---- MODULE Spec2Model ----
(***************************************************************************)
(* Model of the document-to-chunk pipeline of ElligenceAI:                 *)
(*   - DocumentParser._create_chunk_with_overlap (paragraph accumulation), *)
(*   - PDFParser (page extraction, bridge chunks, saving, batch run),      *)
(*   - DocumentParser.parse_document (dispatch on the declared format),    *)
(*   - WeaviateUploader.upload_text_file and the Streamlit upload record,  *)
(*   - document_qa_streamlit.check_password.                               *)
(* Strings are sequences of one-character strings, so that str.split,      *)
(* str.join and str.strip are computed and not assumed.                    *)
(***************************************************************************)
EXTENDS Integers, Sequences, FiniteSets, TLC

VARIABLES
    \* --- DocumentParser._create_chunk_with_overlap ---
    content,              \* the paragraph list given to the call
    max_words_per_chunk,  \* window size of the call
    overlap_words,        \* overlap of the call
    para_i,               \* index of the paragraph the for loop takes next
    current_chunk,        \* the buffer (list of paragraphs)
    current_word_count,   \* the running total
    chunks,               \* the chunk dicts appended so far
    closed,               \* per appended chunk: the buffer it was built from
    para_pc,              \* "idle" | "loop" | "done"
    \* --- PDFParser ---
    pages,                \* the PageContent list (extracted so far / given)
    overlap_percentage,   \* <<numerator, denominator>> of the overlap fraction
    pdf_chunks,           \* the list built by create_overlapping_chunks
    pdf_pc,               \* position inside process_pdf / the chunker call
    pdf_path,             \* the file process_pdf works on
    doc_len,              \* len(doc) of the opened PDF
    pdf_result,           \* what process_pdf returned
    out_files,            \* output_dir: file name (uuid) -> what was written
    extract_errors,       \* files for which "Error processing ..." was printed
    enrich_errors,        \* <<file, page>> with "Error generating image description"
    caller,               \* who called process_pdf
    pdf_files,            \* input_dir.glob("*.pdf")
    file_i,               \* position of process_directory's loop
    results,              \* process_directory's dict
    dir_pc,               \* position inside process_directory
    \* --- DocumentParser.parse_document ---
    file_path,            \* the path given to parse_document
    file_type,            \* the declared format given to parse_document
    service,              \* self.service after _setup_google_docs
    fs,                   \* the files on disk: path -> content tag
    com_open,             \* a COM/PowerPoint session is still open
    doc_result,           \* what parse_document returned
    doc_log,              \* the error lines printed by DocumentParser
    doc_pc,               \* position inside parse_document
    \* --- identifiers and time ---
    uuid_next,            \* uuid.uuid4(): the next fresh identifier
    clock,                \* datetime.now(): a tick per record built
    \* --- history ---
    fs0,                  \* the files on disk when parse_document was called
    \* --- WeaviateUploader.upload_text_file and the Streamlit upload ---
    up_text,              \* the text of the uploaded file
    metadata,             \* the metadata argument (None or a dict)
    collection,           \* the objects inserted in the collection
    up_result,            \* what upload_text_file returned
    up_dir,               \* the directory given to upload_directory
    up_todo,              \* the matching files the glob has not yet given
    up_results,           \* upload_directory's results dict
    up_pc,                \* position of the upload
    \* --- document_qa_streamlit.check_password ---
    session,              \* st.session_state
    entered,              \* the credentials the last password_entered call read
    form_shown            \* the login widgets are on the page

para_vars == <<content, max_words_per_chunk, overlap_words, para_i,
               current_chunk, current_word_count, chunks, closed, para_pc>>
chunker_vars == <<pages, overlap_percentage, pdf_chunks, pdf_pc>>
pdf_vars == <<pdf_path, doc_len, pdf_result, out_files, extract_errors,
              enrich_errors, caller>>
dir_vars == <<pdf_files, file_i, results, dir_pc>>
doc_vars == <<file_path, file_type, service, fs, com_open, doc_result, doc_log,
              doc_pc>>
id_vars == <<uuid_next, clock>>
upload_vars == <<up_text, metadata, collection, up_result, up_dir, up_todo,
                 up_results, up_pc>>
auth_vars == <<session, entered, form_shown>>
ext_vars == <<fs0, upload_vars, auth_vars>>

-----------------------------------------------------------------------------
(* Bounds *)
MaxParas == 3        \* paragraphs per call
MaxParaLen == 3      \* characters per paragraph
MaxWindow == 3       \* largest max_words_per_chunk tried
MaxOverlap == 2      \* largest overlap_words tried
MaxPages == 3        \* pages per page list
MaxTextLen == 2      \* characters per page text given to the chunker
MaxPdfs == 2         \* PDF files in the input directory
MaxDocPages == 2     \* pages of a PDF file
MaxRawLen == 1       \* characters of a page's raw text layer
MaxPageWords == 500  \* words per page of the equal-page lists
MaxHundreds == 24    \* paragraphs of the long text

-----------------------------------------------------------------------------
(* Strings *)

\* str.split() separators that occur in the modelled texts
Whitespace == {" ", "\n"}

\* position i of s starts a maximal run of non-whitespace characters
IsWordStart(s, i) ==
    s[i] \notin Whitespace /\ (i = 1 \/ s[i - 1] \in Whitespace)

\* position i of s ends a maximal run of non-whitespace characters
IsWordEnd(s, i) ==
    s[i] \notin Whitespace /\ (i = Len(s) \/ s[i + 1] \in Whitespace)

RECURSIVE Marks(_, _, _, _)
\* the word starts (or the word ends) of s among the positions lo..hi, in
\* increasing order
Marks(s, lo, hi, starts) ==
    IF lo > hi THEN <<>>
    ELSE IF lo = hi
         THEN IF (starts /\ IsWordStart(s, lo)) \/ (~starts /\ IsWordEnd(s, lo))
              THEN <<lo>> ELSE <<>>
         ELSE LET mid == (lo + hi) \div 2
              IN  Marks(s, lo, mid, starts) \o Marks(s, mid + 1, hi, starts)

\* str.split(): the maximal runs of non-whitespace characters, in order
Split(s) ==
    LET first == Marks(s, 1, Len(s), TRUE)
        last == Marks(s, 1, Len(s), FALSE)
    IN  [k \in 1..Len(first) |-> SubSeq(s, first[k], last[k])]

RECURSIVE JoinRange(_, _, _, _)
\* sep.join(parts[lo..hi])
JoinRange(sep, parts, lo, hi) ==
    IF lo > hi THEN <<>>
    ELSE IF lo = hi THEN parts[lo]
    ELSE LET mid == (lo + hi) \div 2
         IN  JoinRange(sep, parts, lo, mid) \o sep
                 \o JoinRange(sep, parts, mid + 1, hi)

\* sep.join(parts)
Join(sep, parts) == JoinRange(sep, parts, 1, Len(parts))

RECURSIVE StripLeft(_)
StripLeft(s) ==
    IF s # <<>> /\ s[1] \in Whitespace THEN StripLeft(Tail(s)) ELSE s

RECURSIVE StripRight(_)
StripRight(s) ==
    IF s # <<>> /\ s[Len(s)] \in Whitespace
    THEN StripRight(SubSeq(s, 1, Len(s) - 1)) ELSE s

\* str.strip()
Strip(s) == StripRight(StripLeft(s))

RECURSIVE Concat(_)
\* list concatenation of a list of lists
Concat(ss) == IF ss = <<>> THEN <<>> ELSE ss[1] \o Concat(Tail(ss))

\* the characters paragraphs are drawn from
ParaChars == {"a", " "}

StringsUpTo(chars, n) == UNION {[1..k -> chars] : k \in 0..n}

\* paragraphs as _parse_txt hands them over: stripped and not empty
Paragraphs == {p \in StringsUpTo(ParaChars, MaxParaLen) : p # <<>> /\ Strip(p) = p}

ParagraphLists == UNION {[1..k -> Paragraphs] : k \in 0..MaxParas}

\* number of words of a list of paragraphs
RECURSIVE WordsOf(_)
WordsOf(ps) == IF ps = <<>> THEN 0 ELSE Len(Split(ps[1])) + WordsOf(Tail(ps))

-----------------------------------------------------------------------------
(* PDFParser.create_overlapping_chunks *)

\* Python's None
None == <<"None">>

\* truth value of an Optional[str]
Truthy(v) == v # None /\ v # <<>>

Digits == <<"0", "1", "2", "3", "4", "5", "6", "7", "8", "9">>

RECURSIVE IntToStr(_)
\* str(n) for n >= 0
IntToStr(n) ==
    IF n < 10 THEN <<Digits[n + 1]>>
    ELSE IntToStr(n \div 10) \o <<Digits[(n % 10) + 1]>>

ImageLabelHead == <<"\n", "\n", "[", "I", "m", "a", "g", "e", " ", "D", "e", "s", "c", "r", "i", "p", "t", "i", "o", "n", " ", "f", "o", "r", " ", "P", "a", "g", "e", " ">>
ImageLabelTail == <<"]", ":", "\n">>

\* the returned string of get_image_description's except branch
ErrorDescription == <<"E", "r", "r", "o", "r", " ", "g", "e", "n", "e", "r", "a", "t", "i", "n", "g", " ", "i", "m", "a", "g", "e", " ", "d", "e", "s", "c", "r", "i", "p", "t", "i", "o", "n", ".">>

\* the default of the overlap_percentage parameter: 0.2
DefaultOverlap == <<1, 5>>

\* page text plus the image description block "if available"
TextWithDescription(page) ==
    IF Truthy(page.image_description)
    THEN page.text \o ImageLabelHead \o IntToStr(page.page_number)
                   \o ImageLabelTail \o page.image_description
    ELSE page.text

\* int(len(words) * overlap_percentage)
OverlapSize(words, pct) == (Len(words) * pct[1]) \div pct[2]

\* variant: the slice starts one word early
LastWordsOneMore(words, k) ==
    IF k = 0 THEN words
    ELSE SubSeq(words, (IF Len(words) > k + 1 THEN Len(words) - k - 1 ELSE 0) + 1,
                Len(words))

\* words[-k:] for 0 <= k: Python reads -0 as 0, the whole list
LastWords(words, k) ==
    IF k = 0 THEN words
    ELSE SubSeq(words, (IF Len(words) > k THEN Len(words) - k ELSE 0) + 1, Len(words))

\* words[:k]
FirstWords(words, k) == SubSeq(words, 1, IF k < Len(words) THEN k ELSE Len(words))

\* f"{a}-{b}"
RangeRef(a, b) == IntToStr(a) \o <<"-">> \o IntToStr(b)

PageChunk(page, uuid) ==
    LET current_text == TextWithDescription(page)
        words == Split(current_text)
    IN  [uuid |-> uuid, page_number |-> page.page_number, text |-> current_text,
         start_word |-> 0, end_word |-> Len(words), image_path |-> page.image_path]

OverlapChunk(page, next_page, pct, uuid) ==
    LET words == Split(TextWithDescription(page))
        next_words == Split(TextWithDescription(next_page))
        overlap_size == OverlapSize(words, pct)
    IN  [uuid |-> uuid,
         page_number |-> RangeRef(page.page_number, next_page.page_number),
         text |-> Join(<<" ">>, LastWords(words, overlap_size)
                                \o FirstWords(next_words, overlap_size)),
         start_word |-> Len(words) - overlap_size, end_word |-> overlap_size,
         image_path |-> None]

\* variant: the last pair of pages gets no bridge
HasNextBeforeLast(i, n) == i < n - 2

\* "if i < len(pages) - 1" with i counted from 0
HasNext(i, n) == i < n - 1

RECURSIVE ChunksFrom(_, _, _, _)
\* the loop "for i in range(len(pages))" from page i (1-based) on
ChunksFrom(ps, i, pct, uuid) ==
    IF i > Len(ps) THEN <<>>
    ELSE IF HasNext(i - 1, Len(ps))
         THEN <<PageChunk(ps[i], uuid), OverlapChunk(ps[i], ps[i + 1], pct, uuid + 1)>>
              \o ChunksFrom(ps, i + 1, pct, uuid + 2)
         ELSE <<PageChunk(ps[i], uuid)>> \o ChunksFrom(ps, i + 1, pct, uuid + 1)

create_overlapping_chunks(ps, pct, uuid) == ChunksFrom(ps, 1, pct, uuid)

\* page texts: page.get_text().strip()
TextChars == {"a", " "}
Stripped(s) == s = <<>> \/ (s[1] \notin Whitespace /\ s[Len(s)] \notin Whitespace)
PageTexts == {t \in StringsUpTo(TextChars, MaxTextLen) : Stripped(t)}

\* image descriptions a page can carry
Descriptions == {None, <<>>, <<"a">>}

\* f"page_{n}_{timestamp}_{uuid}.png" under image_dir
ImagePath(n, t, u) ==
    <<"page_">> \o IntToStr(n) \o <<"_">> \o IntToStr(t) \o <<"_">> \o IntToStr(u)
        \o <<".png">>

\* lists of n pages numbered 1..n, as extract_text_from_pdf numbers them
GivenPages(n) ==
    {[i \in 1..n |-> [page_number |-> i, text |-> f[i].text, image_path |-> None,
                      image_description |-> f[i].image_description]] :
        f \in [1..n -> [text : PageTexts, image_description : Descriptions]]}

PdfIdle ==
    /\ pages = <<>>
    /\ overlap_percentage = DefaultOverlap
    /\ pdf_chunks = <<>>
    /\ pdf_pc = "idle"
    /\ pdf_path = 0
    /\ doc_len = 0
    /\ pdf_result = <<>>
    /\ out_files = <<>>
    /\ extract_errors = {}
    /\ enrich_errors = {}
    /\ caller = "none"

DirIdle ==
    /\ pdf_files = <<>>
    /\ file_i = 1
    /\ results = <<>>
    /\ dir_pc = "idle"

UploadIdle ==
    /\ up_text = <<>>
    /\ metadata = <<>>
    /\ collection = <<>>
    /\ up_result = "none"
    /\ up_dir = [exists |-> FALSE, files |-> {}]
    /\ up_todo = {}
    /\ up_results = <<>>
    /\ up_pc = "idle"

AuthIdle ==
    /\ session = <<>>
    /\ entered = <<>>
    /\ form_shown = FALSE

ExtIdle == UploadIdle /\ AuthIdle

DocIdle ==
    /\ fs0 = <<>>
    /\ file_path = <<>>
    /\ file_type = <<>>
    /\ service = "None"
    /\ fs = <<>>
    /\ com_open = FALSE
    /\ doc_result = <<>>
    /\ doc_log = {}
    /\ doc_pc = "idle"

ParaIdle ==
    /\ content = <<>>
    /\ max_words_per_chunk = 1000
    /\ overlap_words = 200
    /\ para_i = 1
    /\ current_chunk = <<>>
    /\ current_word_count = 0
    /\ chunks = <<>>
    /\ closed = <<>>
    /\ para_pc = "idle"

\* a call of create_overlapping_chunks(pages, overlap_percentage)
InitChunker ==
    /\ ExtIdle
    /\ ParaIdle
    /\ uuid_next = 1
    /\ clock = 1
    /\ \E n \in 0..MaxPages : pages \in GivenPages(n)
    /\ overlap_percentage \in {DefaultOverlap, <<1, 2>>}
    /\ pdf_chunks = <<>>
    /\ pdf_pc = "call"
    /\ pdf_path = 0
    /\ doc_len = 0
    /\ pdf_result = <<>>
    /\ out_files = <<>>
    /\ extract_errors = {}
    /\ enrich_errors = {}
    /\ caller = "none"
    /\ DirIdle
    /\ DocIdle

CreateOverlappingChunks ==
    /\ pdf_pc = "call"
    /\ pdf_chunks' = create_overlapping_chunks(pages, overlap_percentage, uuid_next)
    /\ uuid_next' = uuid_next + Len(pdf_chunks')
    /\ pdf_pc' = "called"
    /\ UNCHANGED <<pages, overlap_percentage, clock>>
    /\ UNCHANGED <<para_vars, pdf_vars, dir_vars, doc_vars, ext_vars>>

-----------------------------------------------------------------------------
(* PDFParser: extraction, saving, process_pdf, process_directory *)

\* what page.get_text() can give before .strip()
RawTexts == StringsUpTo(TextChars, MaxRawLen)

\* the vision call: it raises, or it answers with a message content
DescriptionReplies == {[ok |-> FALSE, content |-> <<>>],
                       [ok |-> TRUE, content |-> <<"a", " ">>]}

\* get_image_description: the answer stripped, or the except branch's string
get_image_description(reply) ==
    IF reply.ok THEN Strip(reply.content) ELSE ErrorDescription

\* extract_page_content for the page with 0-based number n
extract_page_content(n, raw, reply) ==
    [page_number |-> n + 1,
     text |-> Strip(raw),
     image_path |-> ImagePath(n + 1, clock, uuid_next),
     image_description |-> get_image_description(reply)]

\* a dict with one more key
Put(d, k, v) == [x \in DOMAIN d \cup {k} |-> IF x = k THEN v ELSE d[x]]

\* the ways the writing of the file of chunk c can fail: at
\* open(filepath, "w"), before the metadata line is whole on disk, or after
\* it with kept characters of the text. The two f.write calls fill a
\* buffer, and the flush that ends the with block can fail anywhere in it.
SaveFailures(c) ==
    {[step |-> "open", kept |-> 0], [step |-> "write_metadata", kept |-> 0]}
    \cup {[step |-> "write_text", kept |-> k] :
            k \in 0..(IF c.text = <<>> THEN 0 ELSE Len(c.text) - 1)}

\* the file of chunk c as far as the failure lets it get: none when open
\* failed, a file without its metadata line, or the metadata line and the
\* first characters of the text
PartialFile(files, c, failure, pdf_name) ==
    CASE failure.step = "open" -> files
      [] failure.step = "write_metadata" ->
            Put(files, c.uuid,
                [source_pdf |-> None, page_number |-> None, text |-> <<>>])
      [] failure.step = "write_text" ->
            Put(files, c.uuid,
                [source_pdf |-> pdf_name, page_number |-> c.page_number,
                 text |-> SubSeq(c.text, 1, failure.kept)])

RECURSIVE save_chunks(_, _, _, _, _)
\* save_chunks while the first n files are written whole: one file per
\* chunk, and the file after them stopped by failure
save_chunks(files, cs, n, failure, pdf_name) ==
    IF cs = <<>> THEN files
    ELSE IF n = 0 THEN PartialFile(files, cs[1], failure, pdf_name)
    ELSE save_chunks(Put(files, cs[1].uuid,
                         [source_pdf |-> pdf_name,
                          page_number |-> cs[1].page_number,
                          text |-> cs[1].text]),
                     Tail(cs), n - 1, failure, pdf_name)

\* a run of process_directory over a directory of n PDF files
InitPdf ==
    /\ ExtIdle
    /\ ParaIdle
    /\ uuid_next = 1
    /\ clock = 1
    /\ PdfIdle
    /\ \E n \in 0..MaxPdfs : pdf_files = [i \in 1..n |-> i]
    /\ file_i = 1
    /\ results = <<>>
    /\ dir_pc = "call"
    /\ DocIdle

\* process_directory up to the loop
ProcessDirectory ==
    /\ dir_pc = "call"
    /\ dir_pc' = IF pdf_files = <<>> THEN "returned" ELSE "loop"
    /\ results' = <<>>
    /\ file_i' = 1
    /\ UNCHANGED <<pdf_files, para_vars, chunker_vars, pdf_vars, id_vars, doc_vars, ext_vars>>

\* "for pdf_path in pdf_files": the call of process_pdf
ProcessDirectoryCall ==
    /\ dir_pc = "loop"
    /\ pdf_pc = "idle"
    /\ file_i <= Len(pdf_files)
    /\ pdf_path' = pdf_files[file_i]
    /\ caller' = "process_directory"
    /\ pdf_pc' = "open"
    /\ UNCHANGED <<pages, overlap_percentage, pdf_chunks, doc_len, pdf_result,
                   out_files, extract_errors, enrich_errors>>
    /\ UNCHANGED <<para_vars, dir_vars, id_vars, doc_vars, ext_vars>>

\* process_pdf, extract_text_from_pdf: fitz.open
OpenPdf ==
    /\ pdf_pc = "open"
    /\ pages' = <<>>
    /\ pdf_chunks' = <<>>
    /\ pdf_result' = <<>>
    /\ \E opened \in BOOLEAN :
         IF opened
         THEN /\ \E n \in 0..MaxDocPages : doc_len' = n
              /\ pdf_pc' = IF doc_len' = 0 THEN "extracted" ELSE "extract"
              /\ UNCHANGED extract_errors
         ELSE /\ doc_len' = 0
              /\ pdf_pc' = "extracted"
              /\ extract_errors' = extract_errors \cup {pdf_path}
    /\ UNCHANGED <<overlap_percentage, pdf_path, out_files, enrich_errors, caller>>
    /\ UNCHANGED <<para_vars, dir_vars, id_vars, doc_vars, ext_vars>>

\* how extract_page_content ends for a page: it returns the page ("ok"),
\* page.get_text() raises before the image name is built ("text_failed"),
\* or the rendering or saving of the image raises after datetime.now() and
\* uuid.uuid4() were drawn for its name ("image_failed")
PageOutcomes == {"ok", "text_failed", "image_failed"}

\* one iteration of extract_text_from_pdf's loop
ExtractPage ==
    /\ pdf_pc = "extract"
    /\ Len(pages) < doc_len
    /\ \E outcome \in PageOutcomes :
         IF outcome = "ok"
         THEN \E raw \in RawTexts, reply \in DescriptionReplies :
                /\ pages' = Append(pages, extract_page_content(Len(pages), raw, reply))
                /\ enrich_errors' = IF reply.ok THEN enrich_errors
                                    ELSE enrich_errors \cup {<<pdf_path, Len(pages) + 1>>}
                /\ pdf_pc' = IF Len(pages') = doc_len THEN "extracted" ELSE "extract"
                /\ uuid_next' = uuid_next + 1
                /\ clock' = clock + 1
                /\ UNCHANGED extract_errors
         ELSE /\ extract_errors' = extract_errors \cup {pdf_path}
              /\ pdf_pc' = "extracted"
              /\ uuid_next' = IF outcome = "image_failed" THEN uuid_next + 1
                              ELSE uuid_next
              /\ clock' = IF outcome = "image_failed" THEN clock + 1
                          ELSE clock
              /\ UNCHANGED <<pages, enrich_errors>>
    /\ UNCHANGED <<overlap_percentage, pdf_chunks, pdf_path, doc_len, pdf_result,
                   out_files, caller>>
    /\ UNCHANGED <<para_vars, dir_vars, doc_vars, ext_vars>>

\* process_pdf after extraction: chunk, save, return
FinishPdf ==
    /\ pdf_pc = "extracted"
    /\ IF pages = <<>>
       THEN /\ pdf_result' = <<>>
            /\ pdf_pc' = "returned"
            /\ UNCHANGED <<pdf_chunks, out_files, uuid_next>>
       ELSE /\ pdf_chunks' = create_overlapping_chunks(pages, DefaultOverlap, uuid_next)
            /\ uuid_next' = uuid_next + Len(pdf_chunks')
            /\ \E written \in 0..Len(pdf_chunks') :
                 /\ \E failure \in IF written = Len(pdf_chunks')
                                    THEN {[step |-> "open", kept |-> 0]}
                                    ELSE SaveFailures(pdf_chunks'[written + 1]) :
                      out_files' = save_chunks(out_files, pdf_chunks', written,
                                               failure, pdf_path)
                 /\ IF written = Len(pdf_chunks')
                    THEN pdf_result' = pdf_chunks' /\ pdf_pc' = "returned"
                    ELSE pdf_result' = <<>> /\ pdf_pc' = "raised"
    /\ UNCHANGED <<pages, overlap_percentage, pdf_path, doc_len, extract_errors,
                   enrich_errors, caller, clock>>
    /\ UNCHANGED <<para_vars, dir_vars, doc_vars, ext_vars>>

\* "results[pdf_path.name] = chunks", then the next file or the return
ProcessDirectoryCollect ==
    /\ dir_pc = "loop"
    /\ caller = "process_directory"
    /\ pdf_pc = "returned"
    /\ results' = Put(results, pdf_path, pdf_result)
    /\ file_i' = file_i + 1
    /\ dir_pc' = IF file_i' > Len(pdf_files) THEN "returned" ELSE "loop"
    /\ pdf_pc' = "idle"
    /\ pages' = <<>>
    /\ pdf_chunks' = <<>>
    /\ pdf_result' = <<>>
    /\ doc_len' = 0
    /\ UNCHANGED <<overlap_percentage, pdf_path, out_files, extract_errors,
                   enrich_errors, caller, pdf_files>>
    /\ UNCHANGED <<para_vars, id_vars, doc_vars, ext_vars>>

\* an exception of process_pdf leaves process_directory
ProcessDirectoryRaise ==
    /\ dir_pc = "loop"
    /\ caller = "process_directory"
    /\ pdf_pc = "raised"
    /\ dir_pc' = "raised"
    /\ pdf_pc' = "idle"
    /\ UNCHANGED <<pages, overlap_percentage, pdf_chunks>>
    /\ UNCHANGED <<pdf_files, file_i, results>>
    /\ UNCHANGED <<para_vars, pdf_vars, id_vars, doc_vars, ext_vars>>

-----------------------------------------------------------------------------
(* DocumentParser._create_chunk_with_overlap *)

RECURSIVE OverlapWalk(_, _, _, _, _)
\* for p in reversed(current_chunk): k is the position visited next
OverlapWalk(buf, k, limit, overlap_text, overlap_word_count) ==
    IF k = 0 THEN [text |-> overlap_text, count |-> overlap_word_count]
    ELSE LET p_words == Split(buf[k]) IN
         IF overlap_word_count + Len(p_words) <= limit
         THEN OverlapWalk(buf, k - 1, limit, <<buf[k]>> \o overlap_text,
                          overlap_word_count + Len(p_words))
         ELSE [text |-> overlap_text, count |-> overlap_word_count]

\* variant: the walk tests "<" where the code tests "<="
OverlapTextStrict(buf, limit) == OverlapWalk(buf, Len(buf), limit - 1, <<>>, 0)

\* the paragraphs kept for overlap and their word count
OverlapText(buf, limit) == OverlapWalk(buf, Len(buf), limit, <<>>, 0)

\* the dict appended to chunks
ParaChunk(buf, page_number) ==
    [content |-> Join(<<" ">>, buf), page_number |-> page_number,
     uuid |-> uuid_next, created_at |-> clock]

\* variant: the last buffer is emitted only when it fills the window
FlushOnlyFull(buf) == WordsOf(buf) >= max_words_per_chunk

\* "if current_chunk:" after the loop
FlushNeeded(buf) == buf # <<>>

InitPara ==
    /\ ExtIdle
    /\ content \in ParagraphLists
    /\ max_words_per_chunk \in 1..MaxWindow
    /\ overlap_words \in 0..MaxOverlap
    /\ para_i = 1
    /\ current_chunk = <<>>
    /\ current_word_count = 0
    /\ chunks = <<>>
    /\ closed = <<>>
    /\ para_pc = "loop"
    /\ uuid_next = 1
    /\ clock = 1
    /\ PdfIdle
    /\ DirIdle
    /\ DocIdle

\* one iteration of "for paragraph in content"
ParaStep ==
    /\ para_pc = "loop"
    /\ para_i <= Len(content)
    /\ LET paragraph == content[para_i]
           words == Split(paragraph)
           total == current_word_count + Len(words)
           seed == OverlapText(current_chunk, overlap_words)
       IN  IF total >= max_words_per_chunk
           THEN /\ chunks' = Append(chunks, ParaChunk(current_chunk, 1))
                /\ closed' = Append(closed,
                       [paras |-> current_chunk,
                        carried |-> IF closed = <<>> THEN 0
                                    ELSE Len(closed[Len(closed)].seed),
                        seed |-> seed.text,
                        trigger |-> para_i,
                        last |-> para_i - 1])
                /\ current_chunk' = Append(seed.text, paragraph)
                /\ current_word_count' = seed.count
                /\ uuid_next' = uuid_next + 1
                /\ clock' = clock + 1
           ELSE /\ current_chunk' = Append(current_chunk, paragraph)
                /\ current_word_count' = total
                /\ UNCHANGED <<chunks, closed, uuid_next, clock>>
    /\ para_i' = para_i + 1
    /\ UNCHANGED <<content, max_words_per_chunk, overlap_words, para_pc>>
    /\ UNCHANGED <<chunker_vars, pdf_vars, dir_vars, doc_vars, ext_vars>>

\* the code after the loop: the last chunk and the return
ParaFlush ==
    /\ para_pc = "loop"
    /\ para_i > Len(content)
    /\ IF FlushNeeded(current_chunk)
       THEN /\ chunks' = Append(chunks, ParaChunk(current_chunk, 1))
            /\ closed' = Append(closed,
                   [paras |-> current_chunk,
                    carried |-> IF closed = <<>> THEN 0
                                ELSE Len(closed[Len(closed)].seed),
                    seed |-> <<>>,
                    trigger |-> 0,
                    last |-> para_i - 1])
            /\ uuid_next' = uuid_next + 1
            /\ clock' = clock + 1
       ELSE UNCHANGED <<chunks, closed, uuid_next, clock>>
    /\ para_pc' = "done"
    /\ UNCHANGED <<content, max_words_per_chunk, overlap_words, para_i,
                   current_chunk, current_word_count>>
    /\ UNCHANGED <<chunker_vars, pdf_vars, dir_vars, doc_vars, ext_vars>>

-----------------------------------------------------------------------------
(* DocumentParser.parse_document *)

LowerChar(c) ==
    CASE c = "C" -> "c" [] c = "D" -> "d" [] c = "G" -> "g" [] c = "O" -> "o"
      [] c = "P" -> "p" [] c = "T" -> "t" [] c = "X" -> "x"
      [] OTHER -> c

\* str.lower()
Lower(s) == [i \in 1..Len(s) |-> LowerChar(s[i])]

Docx == <<".", "d", "o", "c", "x">>
Txt == <<".", "t", "x", "t">>
Pptx == <<".", "p", "p", "t", "x">>
Gdoc == <<".", "g", "d", "o", "c">>
Pdf == <<".", "p", "d", "f">>

\* the declared formats tried
FileTypes == {Docx, Txt, Pptx, Gdoc, Pdf,
              <<".", "D", "O", "C", "X">>, <<".", "T", "x", "t">>,
              <<".", "P", "P", "T", "X">>, <<".", "G", "D", "o", "c">>,
              <<".", "x", "y", "z">>}

\* Path.with_suffix
with_suffix(path, suffix) == [stem |-> path.stem, suffix |-> suffix]

\* a dict without a key
Remove(d, k) == [x \in DOMAIN d \ {k} |-> d[x]]

\* positional parameters of _create_chunk_with_overlap that have no default:
\* content, page_number, current_word_count
RequiredArgs == 3

\* the extractors call self._create_chunk_with_overlap(paragraphs, 1)
GivenArgs == 2

\* the call binds its arguments, else Python raises TypeError
CallBinds(given) == given >= RequiredArgs

\* _parse_word_doc, _parse_txt: read the file, then call the chunker
ParseParagraphFile(readable) ==
    IF ~readable THEN [raised |-> TRUE, log |-> {}]
    ELSE IF ~CallBinds(GivenArgs) THEN [raised |-> TRUE, log |-> {}]
    ELSE [raised |-> FALSE, log |-> {}]

\* _parse_google_doc: everything after the service test is inside try/except
ParseGoogleDoc(readable) ==
    IF service = "None" THEN [raised |-> TRUE, log |-> {}]
    ELSE IF ~readable \/ ~CallBinds(GivenArgs)
         THEN [raised |-> FALSE, log |-> {"Error parsing Google Doc"}]
         ELSE [raised |-> FALSE, log |-> {}]

\* the branch parse_document selects for a format other than .pptx
Extractor(ft, readable) ==
    IF ft = Docx \/ ft = Txt THEN ParseParagraphFile(readable)
    ELSE IF ft = Gdoc THEN ParseGoogleDoc(readable)
    ELSE [raised |-> TRUE, log |-> {}]

\* parse_document's try/except around the selected branch
ParseDocumentCatch(raised, value, log) ==
    IF raised
    THEN [pc |-> "returned", value |-> <<>>,
          log |-> log \cup {"Error parsing document"}]
    ELSE [pc |-> "returned", value |-> value, log |-> log]

\* what parse_document hands back when the branch of a format other than
\* .pptx stops before chunking
ParseOutcome(ft, readable) ==
    LET out == Extractor(Lower(ft), readable)
    IN  ParseDocumentCatch(out.raised, <<>>, out.log)

\* a call parse_document(file_path, file_type)
InitDoc ==
    /\ ExtIdle
    /\ ParaIdle
    /\ uuid_next = 1
    /\ clock = 1
    /\ PdfIdle
    /\ DirIdle
    /\ file_type \in FileTypes
    /\ file_path = [stem |-> "deck", suffix |-> file_type]
    /\ service \in {"None", "docs"}
    /\ \E other \in BOOLEAN :
         fs = IF other
              THEN Put(Put(<<>>, file_path, "source"),
                       with_suffix(file_path, Pdf), "other")
              ELSE Put(<<>>, file_path, "source")
    /\ fs0 = fs
    /\ com_open = FALSE
    /\ doc_result = <<>>
    /\ doc_log = {}
    /\ doc_pc = "call"

\* parse_document for every format but .pptx
ParseDocument ==
    /\ doc_pc = "call"
    /\ Lower(file_type) # Pptx
    /\ \E readable \in BOOLEAN :
         LET out == Extractor(Lower(file_type), readable)
             ret == ParseOutcome(file_type, readable)
         IN  IF out.raised \/ out.log # {} \/ Lower(file_type) \notin {Docx, Txt, Gdoc}
             THEN \* the branch failed: nothing was chunked
                  /\ doc_pc' = ret.pc
                  /\ doc_result' = ret.value
                  /\ doc_log' = ret.log
                  /\ UNCHANGED para_vars
             ELSE \* the chunker runs on the paragraphs read
                  /\ doc_pc' = "chunking"
                  /\ \E ps \in ParagraphLists : content' = ps
                  /\ para_pc' = "loop"
                  /\ UNCHANGED <<max_words_per_chunk, overlap_words, para_i,
                                 current_chunk, current_word_count, chunks, closed,
                                 doc_result, doc_log>>
    /\ UNCHANGED <<file_path, file_type, service, fs, com_open>>
    /\ UNCHANGED <<chunker_vars, pdf_vars, dir_vars, id_vars, ext_vars>>

\* where _convert_pptx_to_pdf can stop: it returns the path ("ok"), or one
\* of its calls raises: pythoncom.CoInitialize itself ("coinit_failed", COM
\* was never initialised), Dispatch, Open or SaveAs ("open_failed", COM is
\* initialised and nothing was written), Close, Quit or CoUninitialize
\* ("close_failed", the PDF is written and COM is not released)
ConvertOutcomes == {"ok", "coinit_failed", "open_failed", "close_failed"}

\* _convert_and_parse_pptx up to the call of process_pdf
ConvertPptx ==
    /\ doc_pc = "call"
    /\ Lower(file_type) = Pptx
    /\ LET temp == with_suffix(file_path, Pdf) IN
       \E outcome \in ConvertOutcomes :
         /\ fs' = IF outcome \in {"ok", "close_failed"}
                  THEN Put(fs, temp, "converted")
                  ELSE fs
         /\ com_open' = (outcome \in {"open_failed", "close_failed"})
         /\ IF outcome = "ok"
            THEN /\ pdf_path' = temp
                 /\ caller' = "parse_document"
                 /\ pdf_pc' = "open"
                 /\ doc_pc' = "process_pdf"
                 /\ UNCHANGED <<doc_result, doc_log>>
            ELSE LET ret == ParseDocumentCatch(FALSE, <<>>,
                                {"Error converting PowerPoint to PDF",
                                 "Error processing PowerPoint file"})
                 IN  /\ doc_pc' = ret.pc
                     /\ doc_result' = ret.value
                     /\ doc_log' = ret.log
                     /\ UNCHANGED <<pdf_path, caller, pdf_pc>>
    /\ UNCHANGED <<pages, overlap_percentage, pdf_chunks, doc_len, pdf_result,
                   out_files, extract_errors, enrich_errors>>
    /\ UNCHANGED <<file_path, file_type, service>>
    /\ UNCHANGED <<para_vars, dir_vars, id_vars, ext_vars>>

\* _convert_and_parse_pptx after process_pdf, and parse_document's return:
\* an exception of process_pdf or of pdf_path.unlink() is caught, printed and
\* answered with the empty list, and the converted PDF stays on disk
FinishPptx ==
    /\ doc_pc = "process_pdf"
    /\ caller = "parse_document"
    /\ pdf_pc \in {"returned", "raised"}
    /\ \E unlink_ok \in BOOLEAN :
       LET failed == pdf_pc = "raised" \/ ~unlink_ok
           ret == IF failed
                  THEN ParseDocumentCatch(FALSE, <<>>,
                                          {"Error processing PowerPoint file"})
                  ELSE ParseDocumentCatch(FALSE, pdf_result, {})
       IN  /\ fs' = IF failed THEN fs ELSE Remove(fs, pdf_path)
           /\ doc_pc' = ret.pc
           /\ doc_result' = ret.value
           /\ doc_log' = ret.log
    /\ pdf_pc' = "idle"
    /\ UNCHANGED <<pages, overlap_percentage, pdf_chunks>>
    /\ UNCHANGED <<file_path, file_type, service, com_open>>
    /\ UNCHANGED <<para_vars, pdf_vars, dir_vars, id_vars, ext_vars>>

-----------------------------------------------------------------------------
(* create_overlapping_chunks on pages of equal length *)

\* the word counts tried for a page
PageWordCounts == {w \in 0..MaxPageWords : w % 25 = 0}

\* the j-th word of page p: it names the page and the hundred it lies in
PageWord(p, j) == <<Digits[p + 1], Digits[((j - 1) \div 100) + 1]>>

\* a page text of w words
PageText(p, w) == Join(<<" ">>, [j \in 1..w |-> PageWord(p, j)])

\* n pages of w words each, without image description
EvenPages(n, w) ==
    [i \in 1..n |-> [page_number |-> i, text |-> PageText(i, w),
                     image_path |-> None, image_description |-> None]]

\* a call of create_overlapping_chunks on such a list
InitEvenPages ==
    /\ ExtIdle
    /\ ParaIdle
    /\ uuid_next = 1
    /\ clock = 1
    /\ \E n \in 0..MaxPages, w \in PageWordCounts : pages = EvenPages(n, w)
    /\ overlap_percentage \in {DefaultOverlap, <<1, 2>>}
    /\ pdf_chunks = <<>>
    /\ pdf_pc = "call"
    /\ pdf_path = 0
    /\ doc_len = 0
    /\ pdf_result = <<>>
    /\ out_files = <<>>
    /\ extract_errors = {}
    /\ enrich_errors = {}
    /\ caller = "none"
    /\ DirIdle
    /\ DocIdle

-----------------------------------------------------------------------------
(* _create_chunk_with_overlap with its default window on a long text *)

\* the i-th paragraph of the long text: 100 words that name the paragraph
HundredWords(i) == Join(<<" ">>, [j \in 1..100 |-> IntToStr(i)])

\* a text of n paragraphs of 100 words
LongText(n) == [i \in 1..n |-> HundredWords(i)]

\* a call _create_chunk_with_overlap(content, 1, 0) with the defaults
\* max_words_per_chunk = 1000 and overlap_words = 200
InitLongText ==
    /\ ExtIdle
    /\ \E n \in 0..MaxHundreds : content = LongText(n)
    /\ max_words_per_chunk = 1000
    /\ overlap_words = 200
    /\ para_i = 1
    /\ current_chunk = <<>>
    /\ current_word_count = 0
    /\ chunks = <<>>
    /\ closed = <<>>
    /\ para_pc = "loop"
    /\ uuid_next = 1
    /\ clock = 1
    /\ PdfIdle
    /\ DirIdle
    /\ DocIdle

-----------------------------------------------------------------------------
(* WeaviateUploader.upload_text_file and the Streamlit upload *)

\* dict.update and {**a, **b}: the entries of b win
Update(a, b) ==
    [k \in DOMAIN a \cup DOMAIN b |-> IF k \in DOMAIN b THEN b[k] ELSE a[k]]

\* the text a file can hold
UploadTexts == StringsUpTo(ParaChars, MaxParaLen)

\* the file upload_text_file is called on directly
UploadPath == [stem |-> "notes", suffix |-> ".txt"]

\* Path.name
PathName(path) == path.stem \o path.suffix

\* file_path.name of the uploaded file
UploadName == PathName(UploadPath)

\* keys a caller may put in the metadata dict
MetaKeys == {"word_count", "source_file", "chunk_uuid", "page_number", "content"}

\* the value the caller gives to a key
MetaValue(k) ==
    CASE k = "word_count" -> 99
      [] k = "source_file" -> "caller.txt"
      [] k = "chunk_uuid" -> 0
      [] k = "page_number" -> 7
      [] k = "content" -> <<"a", " ", "a", " ", "a", " ", "a", " ", "a">>

MetadataDicts == {[k \in ks |-> MetaValue(k)] : ks \in SUBSET MetaKeys}

\* the metadata argument: None (the default) or a dict
NoMetadata == [is_none |-> TRUE, dict |-> <<>>]
MetadataArgs ==
    {NoMetadata} \cup {[is_none |-> FALSE, dict |-> d] : d \in MetadataDicts}

\* metadata after the update and the chunk_uuid assignment
UploadMetadata(name, text, md, uuid, now) ==
    LET given == IF md.is_none THEN <<>> ELSE md.dict
        updated == Update(given, [source_file |-> name,
                                  created_at |-> now,
                                  word_count |-> Len(Split(text))])
    IN  Put(updated, "chunk_uuid", uuid)

\* the object handed to data.insert: {"content": content, **metadata}
UploadRecord(name, text, md, uuid, now) ==
    Update([content |-> text], UploadMetadata(name, text, md, uuid, now))

\* the object the Streamlit page inserts for an uploaded file
StreamlitRecord(text, name, uuid, now) ==
    [content |-> text,
     source_file |-> name,
     created_at |-> now,
     word_count |-> Len(Split(text)),
     chunk_uuid |-> uuid]

\* upload_text_file(file_path, md) on the store w (the collection, the next
\* uuid, the time): what it returns, the caller's dict after it, and the
\* store after it. An exception of open/read or of insert is caught.
upload_text_file(w, name, text, md, readable, insert_ok) ==
    IF ~readable
    THEN [ret |-> FALSE, metadata |-> md, collection |-> w.collection,
          uuid_next |-> w.uuid_next, clock |-> w.clock]
    ELSE [ret |-> insert_ok,
          metadata |-> [is_none |-> md.is_none,
                        dict |-> IF md.is_none THEN <<>>
                                 ELSE UploadMetadata(name, text, md,
                                                     w.uuid_next, w.clock)],
          collection |-> IF insert_ok
                         THEN Append(w.collection,
                                     UploadRecord(name, text, md,
                                                  w.uuid_next, w.clock))
                         ELSE w.collection,
          uuid_next |-> w.uuid_next + 1,
          clock |-> w.clock + 1]

\* the store the uploader works on
Store == [collection |-> collection, uuid_next |-> uuid_next, clock |-> clock]

\* the texts of the files of a directory
DirTexts == {<<"a">>, <<"a", " ", "a">>}

\* the names a directory can hold: two text files and one other file
DirPaths == {UploadPath, [stem |-> "b", suffix |-> ".txt"],
             [stem |-> "c", suffix |-> ".md"]}

\* a directory: it does not exist, or it holds some of the files, each with
\* a text
Directories ==
    {[exists |-> FALSE, files |-> {}]}
    \cup {[exists |-> TRUE,
           files |-> {[path |-> p, text |-> t[p]] : p \in ps}] :
            ps \in SUBSET DirPaths, t \in [DirPaths -> DirTexts]}

\* directory.glob("*.txt"): the files whose name ends in .txt
Glob(dir) == {f \in dir.files : f.path.suffix = ".txt"}

\* a call upload_text_file(file_path, metadata) or upload_directory(dir)
InitUpload ==
    /\ ParaIdle
    /\ PdfIdle
    /\ DirIdle
    /\ DocIdle
    /\ AuthIdle
    /\ uuid_next = 1
    /\ clock = 1
    /\ collection = <<>>
    /\ up_result = "none"
    /\ up_todo = {}
    /\ up_results = <<>>
    /\ \/ /\ up_pc = "call"
          /\ up_text \in UploadTexts
          /\ metadata \in MetadataArgs
          /\ up_dir = [exists |-> FALSE, files |-> {}]
       \/ /\ up_pc = "dir_call"
          /\ up_text = <<>>
          /\ metadata = NoMetadata
          /\ up_dir \in Directories

UploadTextFile ==
    /\ up_pc = "call"
    /\ \E readable \in BOOLEAN, insert_ok \in BOOLEAN :
         LET r == upload_text_file(Store, UploadName, up_text, metadata,
                                   readable, insert_ok)
         IN  /\ up_result' = r.ret
             /\ metadata' = r.metadata
             /\ collection' = r.collection
             /\ uuid_next' = r.uuid_next
             /\ clock' = r.clock
    /\ up_pc' = "returned"
    /\ UNCHANGED <<up_text, up_dir, up_todo, up_results>>
    /\ UNCHANGED <<para_vars, chunker_vars, pdf_vars, dir_vars, doc_vars,
                   fs0, auth_vars>>

\* upload_directory up to the loop: the empty results, the existence test,
\* the glob
UploadDirectory ==
    /\ up_pc = "dir_call"
    /\ up_results' = <<>>
    /\ up_todo' = IF up_dir.exists THEN Glob(up_dir) ELSE {}
    /\ up_pc' = IF up_todo' = {} THEN "dir_returned" ELSE "dir_loop"
    /\ UNCHANGED <<up_text, metadata, collection, up_result, up_dir, id_vars>>
    /\ UNCHANGED <<para_vars, chunker_vars, pdf_vars, dir_vars, doc_vars,
                   fs0, auth_vars>>

\* "for file_path in directory.glob(pattern)": the glob gives the files in
\* the order of the file system, each is uploaded without metadata and its
\* success recorded under its name
UploadDirectoryFile ==
    /\ up_pc = "dir_loop"
    /\ \E f \in up_todo, readable \in BOOLEAN, insert_ok \in BOOLEAN :
         LET r == upload_text_file(Store, PathName(f.path), f.text,
                                   NoMetadata, readable, insert_ok)
         IN  /\ up_result' = r.ret
             /\ up_results' = Put(up_results, PathName(f.path), r.ret)
             /\ collection' = r.collection
             /\ uuid_next' = r.uuid_next
             /\ clock' = r.clock
             /\ up_todo' = up_todo \ {f}
    /\ up_pc' = IF up_todo' = {} THEN "dir_returned" ELSE "dir_loop"
    /\ UNCHANGED <<up_text, metadata, up_dir>>
    /\ UNCHANGED <<para_vars, chunker_vars, pdf_vars, dir_vars, doc_vars,
                   fs0, auth_vars>>

-----------------------------------------------------------------------------
(* document_qa_streamlit: check_password *)

\* hashlib.sha256(s.encode()).hexdigest(): one digest per input, and a
\* digest is never the text it was computed from
Sha256(s) == "sha256(" \o s \o ")"

\* the configured users: username -> digest of the password
USERS == [u \in {"admin"} |-> Sha256("your_secure_password")]

\* what a visitor can type in the two fields
Usernames ==
    {"", "admin", "Admin", "guest", "root", "your_secure_password",
     Sha256("admin"), Sha256("guest")}
Passwords ==
    {"", "your_secure_password", "Your_secure_password", "admin", "guest",
     "password", Sha256("your_secure_password"), Sha256("admin")}

\* st.session_state.get(key, default)
Get(sess, k, default) == IF k \in DOMAIN sess THEN sess[k] ELSE default

\* the on_change callback of both text inputs
password_entered(sess) ==
    IF /\ Sha256(sess["username"]) \in DOMAIN USERS
       /\ Sha256(sess["password"]) = USERS[Sha256(sess["username"])]
    THEN Remove(Put(sess, "password_correct", TRUE), "password")
    ELSE Put(sess, "password_correct", FALSE)

\* one run of check_password: its return value and the session state after
\* it (a rendered text input holds its key, empty until something is typed)
check_password(sess) ==
    IF Get(sess, "password_correct", FALSE)
    THEN [ret |-> TRUE, session |-> sess]
    ELSE [ret |-> FALSE,
          session |-> Update([username |-> "", password |-> ""], sess)]

\* the greeting the chat history starts with:
\* "Hello! I'm your document Q&A assistant. You can upload documents and ask
\* questions about them."
Greeting == 
    <<"H", "e", "l", "l", "o", "!", " ", "I", "'", "m", " ", "y", "o", "u",
      "r", " ", "d", "o", "c", "u", "m", "e", "n", "t", " ", "Q", "&", "A",
      " ", "a", "s", "s", "i", "s", "t", "a", "n", "t", ".", " ", "Y", "o",
      "u", " ", "c", "a", "n", " ", "u", "p", "l", "o", "a", "d", " ", "d",
      "o", "c", "u", "m", "e", "n", "t", "s", " ", "a", "n", "d", " ", "a",
      "s", "k", " ", "q", "u", "e", "s", "t", "i", "o", "n", "s", " ", "a",
      "b", "o", "u", "t", " ", "t", "h", "e", "m", ".">>

\* the answer when the search gave no sections:
\* "I couldn't find any relevant information to answer your question. Please
\* try rephrasing it."
NoSectionsAnswer == 
    <<"I", " ", "c", "o", "u", "l", "d", "n", "'", "t", " ", "f", "i", "n",
      "d", " ", "a", "n", "y", " ", "r", "e", "l", "e", "v", "a", "n", "t",
      " ", "i", "n", "f", "o", "r", "m", "a", "t", "i", "o", "n", " ", "t",
      "o", " ", "a", "n", "s", "w", "e", "r", " ", "y", "o", "u", "r", " ",
      "q", "u", "e", "s", "t", "i", "o", "n", ".", " ", "P", "l", "e", "a",
      "s", "e", " ", "t", "r", "y", " ", "r", "e", "p", "h", "r", "a", "s",
      "i", "n", "g", " ", "i", "t", ".">>

\* the answer of the except branch of main, before str(e):
\* "I encountered an error while processing your question: "
ErrorAnswerHead == 
    <<"I", " ", "e", "n", "c", "o", "u", "n", "t", "e", "r", "e", "d", " ",
      "a", "n", " ", "e", "r", "r", "o", "r", " ", "w", "h", "i", "l", "e",
      " ", "p", "r", "o", "c", "e", "s", "s", "i", "n", "g", " ", "y", "o",
      "u", "r", " ", "q", "u", "e", "s", "t", "i", "o", "n", ":", " ">>

\* what generate_answer returns from its except branch:
\* "Sorry, I encountered an error while generating the answer."
SorryAnswer == 
    <<"S", "o", "r", "r", "y", ",", " ", "I", " ", "e", "n", "c", "o", "u",
      "n", "t", "e", "r", "e", "d", " ", "a", "n", " ", "e", "r", "r", "o",
      "r", " ", "w", "h", "i", "l", "e", " ", "g", "e", "n", "e", "r", "a",
      "t", "i", "n", "g", " ", "t", "h", "e", " ", "a", "n", "s", "w", "e",
      "r", ".">>

\* st.chat_input gave nothing in this run
NoPrompt == None

\* the completion call of generate_answer: it raises, or it answers with a
\* message content
ModelReplies == {[ok |-> FALSE, content |-> <<>>],
                 [ok |-> TRUE, content |-> <<" ", "a", "\n">>]}

\* generate_answer: the content stripped, or the except branch's string
generate_answer(reply) ==
    IF reply.ok THEN Strip(reply.content) ELSE SorryAnswer

\* str(e) of an exception caught by main
ExceptionTexts == {<<"b", "o", "o", "m">>}

\* how answering a question ends: sections were found and an answer was
\* generated, the search gave no sections, or an exception was caught
AnswerOutcomes ==
    {[kind |-> "answered", reply |-> r, error |-> <<>>] : r \in ModelReplies}
    \cup {[kind |-> "no_sections", reply |-> [ok |-> FALSE, content |-> <<>>],
           error |-> <<>>]}
    \cup {[kind |-> "error", reply |-> [ok |-> FALSE, content |-> <<>>],
           error |-> e] : e \in ExceptionTexts}

\* the text bound to answer on each path
Answer(outcome) ==
    CASE outcome.kind = "answered" -> generate_answer(outcome.reply)
      [] outcome.kind = "no_sections" -> NoSectionsAnswer
      [] outcome.kind = "error" -> ErrorAnswerHead \o outcome.error

\* initialize_chat_history
initialize_chat_history(sess) ==
    IF "messages" \in DOMAIN sess THEN sess
    ELSE Put(sess, "messages", <<[role |-> "assistant", content |-> Greeting]>>)

RECURSIVE upload_files(_, _, _, _)
\* the first n iterations of "for uploaded_file in uploaded_files": the file
\* (name, text, decodable as UTF-8) is read back as text and one object
\* inserted; an exception of the read or of the insert is caught and
\* reported for that file, and the loop goes on. insert_ok[k] tells whether
\* the insert of the k-th file succeeds.
upload_files(w, files, n, insert_ok) ==
    IF n = 0 \/ files = <<>> THEN w
    ELSE LET f == files[1]
             w1 == IF ~f.decodable THEN w
                   ELSE [w EXCEPT
                           !.collection =
                               IF insert_ok[1]
                               THEN Append(w.collection,
                                           StreamlitRecord(f.text, f.name,
                                                           w.uuid_next, w.clock))
                               ELSE w.collection,
                           !.uuid_next = w.uuid_next + 1,
                           !.clock = w.clock + 1]
         IN  upload_files(w1, Tail(files), n - 1, Tail(insert_ok))

\* the chat input block of main: the question is appended, the answer is
\* produced, the answer is appended; a run that Streamlit ends while the
\* answer is produced has appended the question only
chat_input(sess, prompt, outcome, stopped) ==
    IF ~Truthy(prompt) THEN sess
    ELSE LET asked == Put(sess, "messages",
                          Append(sess["messages"],
                                 [role |-> "user", content |-> prompt]))
         IN  IF stopped THEN asked
             ELSE Put(asked, "messages",
                      Append(asked["messages"],
                             [role |-> "assistant",
                              content |-> Answer(outcome)]))

\* a run in which nothing was pressed or submitted: the Logout button not
\* pressed, no file in the uploader, no question, the run not ended early
Quiet ==
    [logout |-> FALSE, files |-> <<>>, insert_ok |-> <<>>, prompt |-> NoPrompt,
     outcome |-> CHOOSE o \in AnswerOutcomes : o.kind = "no_sections",
     stop |-> [at |-> "end", after |-> 0]]

\* what a run of the script works on
World ==
    [session |-> session, collection |-> collection, uuid_next |-> uuid_next,
     clock |-> clock]

\* one run of the script on the inputs in: main stops after check_password
\* unless it returned True; the Logout button ends the run for the next one;
\* then the chat history, the upload loop and the chat input. in.stop tells
\* where Streamlit ends the run early for the next one (it raises at a
\* Streamlit call of the script): nowhere ("end"), in the upload loop after
\* some of the files ("upload"), or while the answer is produced ("answer").
\* ret is what check_password returned.
main(w, in) ==
    LET r == check_password(w.session)
    IN  IF ~r.ret
        THEN [ret |-> FALSE, world |-> [w EXCEPT !.session = r.session]]
        ELSE IF in.logout
        THEN [ret |-> TRUE,
              world |-> [w EXCEPT
                           !.session = Put(r.session, "password_correct", FALSE)]]
        ELSE LET w1 == [w EXCEPT !.session = initialize_chat_history(r.session)]
                 n == IF in.stop.at = "upload" THEN in.stop.after
                      ELSE Len(in.files)
                 w2 == upload_files(w1, in.files, n, in.insert_ok)
             IN  [ret |-> TRUE,
                  world |->
                    IF in.stop.at = "upload" THEN w2
                    ELSE [w2 EXCEPT
                            !.session = chat_input(w2.session, in.prompt,
                                                   in.outcome,
                                                   in.stop.at = "answer")]]

\* a visitor opens the page
InitAuth ==
    /\ ParaIdle
    /\ PdfIdle
    /\ DirIdle
    /\ DocIdle
    /\ UploadIdle
    /\ uuid_next = 1
    /\ clock = 1
    /\ session = <<>>
    /\ entered = <<>>
    /\ form_shown = FALSE

\* the first run of the script
OpenPage ==
    /\ ~form_shown
    /\ session = <<>>
    /\ LET r == main(World, Quiet)
       IN  /\ session' = r.world.session
           /\ collection' = r.world.collection
           /\ uuid_next' = r.world.uuid_next
           /\ clock' = r.world.clock
           /\ form_shown' = ~r.ret
    /\ UNCHANGED entered
    /\ UNCHANGED <<up_text, metadata, up_result, up_dir, up_todo, up_results,
                   up_pc>>
    /\ UNCHANGED <<para_vars, chunker_vars, pdf_vars, dir_vars, doc_vars,
                   fs0>>

\* a field changes: the callback runs on the session state that holds the
\* new value, then the script runs again
FieldChanged(w, key, value) ==
    LET typed == Put(w.session, key, value)
        r == main([w EXCEPT !.session = password_entered(typed)], Quiet)
    IN  [world |-> r.world,
         form_shown |-> ~r.ret,
         entered |-> <<[widget |-> key,
                        username |-> typed["username"],
                        password |-> typed["password"],
                        check |-> r.ret]>>]

EnterUsername ==
    /\ form_shown
    /\ \E u \in Usernames :
         LET r == FieldChanged(World, "username", u)
         IN  /\ session' = r.world.session
             /\ collection' = r.world.collection
             /\ uuid_next' = r.world.uuid_next
             /\ clock' = r.world.clock
             /\ form_shown' = r.form_shown
             /\ entered' = r.entered
    /\ UNCHANGED <<up_text, metadata, up_result, up_dir, up_todo, up_results,
                   up_pc>>
    /\ UNCHANGED <<para_vars, chunker_vars, pdf_vars, dir_vars, doc_vars,
                   fs0>>

EnterPassword ==
    /\ form_shown
    /\ \E pw \in Passwords :
         LET r == FieldChanged(World, "password", pw)
         IN  /\ session' = r.world.session
             /\ collection' = r.world.collection
             /\ uuid_next' = r.world.uuid_next
             /\ clock' = r.world.clock
             /\ form_shown' = r.form_shown
             /\ entered' = r.entered
    /\ UNCHANGED <<up_text, metadata, up_result, up_dir, up_todo, up_results,
                   up_pc>>
    /\ UNCHANGED <<para_vars, chunker_vars, pdf_vars, dir_vars, doc_vars,
                   fs0>>

vars == <<para_vars, chunker_vars, pdf_vars, dir_vars, doc_vars, id_vars,
          ext_vars>>

NextPara == ParaStep \/ ParaFlush

SpecPara == InitPara /\ [][NextPara]_vars

NextChunker == CreateOverlappingChunks

SpecChunker == InitChunker /\ [][NextChunker]_vars

NextPdf ==
    \/ ProcessDirectory
    \/ ProcessDirectoryCall
    \/ OpenPdf
    \/ ExtractPage
    \/ FinishPdf
    \/ ProcessDirectoryCollect
    \/ ProcessDirectoryRaise

SpecPdf == InitPdf /\ [][NextPdf]_vars

NextDoc ==
    \/ ParseDocument
    \/ ConvertPptx
    \/ OpenPdf
    \/ ExtractPage
    \/ FinishPdf
    \/ FinishPptx

SpecDoc == InitDoc /\ [][NextDoc]_vars

NextUpload == UploadTextFile \/ UploadDirectory \/ UploadDirectoryFile

SpecUpload == InitUpload /\ [][NextUpload]_vars

SpecLongText == InitLongText /\ [][NextPara]_vars

SpecEvenPages == InitEvenPages /\ [][NextChunker]_vars

NextAuth == OpenPage \/ EnterUsername \/ EnterPassword

SpecAuth == InitAuth /\ [][NextAuth]_vars

-----------------------------------------------------------------------------
(* Properties *)

Range(f) == {f[x] : x \in DOMAIN f}

IsSuffix(s, t) == Len(s) <= Len(t) /\ s = SubSeq(t, Len(t) - Len(s) + 1, Len(t))

\* the last n elements of t
SuffixOf(t, n) == SubSeq(t, Len(t) - n + 1, Len(t))

\* C1: no chunker emits a chunk without words, and input without words
\* yields no chunk; stated for the chunks of _create_chunk_with_overlap and
\* for the chunks of create_overlapping_chunks.
C1_NoEmptyChunk ==
    /\ \A k \in 1..Len(chunks) : Split(chunks[k].content) # <<>>
    /\ (para_pc = "done" /\ WordsOf(content) = 0) => chunks = <<>>
    /\ \A k \in 1..Len(pdf_chunks) : Split(pdf_chunks[k].text) # <<>>

\* C2: the chunk closed at the threshold test holds the paragraph that
\* brought the running total to the threshold as its last paragraph, and its
\* content is the buffered paragraphs joined by single spaces.
C2_ClosedChunkHoldsTrigger ==
    \A k \in 1..Len(closed) :
        closed[k].trigger > 0 =>
            /\ closed[k].last = closed[k].trigger
            /\ closed[k].paras # <<>>
            /\ closed[k].paras[Len(closed[k].paras)] = content[closed[k].trigger]
            /\ chunks[k].content = Join(<<" ">>, closed[k].paras)

\* the paragraphs of chunk k that were not carried over from chunk k - 1
NewParas(k) ==
    SubSeq(closed[k].paras, closed[k].carried + 1, Len(closed[k].paras))

\* C3: when the call has returned, every chunk's content is its paragraphs
\* joined by spaces, the carried-over paragraphs of a chunk are a suffix of
\* the previous chunk, the chunks without their carried-over paragraphs
\* concatenate to the input, every input paragraph is in some chunk, and
\* the buffer left after the last paragraph is the final chunk.
C3_NothingLostOrReordered ==
    para_pc = "done" =>
        /\ Len(chunks) = Len(closed)
        /\ \A k \in 1..Len(closed) :
              /\ chunks[k].content = Join(<<" ">>, closed[k].paras)
              /\ closed[k].carried <= Len(closed[k].paras)
              /\ k > 1 => /\ closed[k].carried <= Len(closed[k - 1].paras)
                          /\ SubSeq(closed[k].paras, 1, closed[k].carried)
                               = SuffixOf(closed[k - 1].paras, closed[k].carried)
        /\ Concat([k \in 1..Len(closed) |-> NewParas(k)]) = content
        /\ \A i \in 1..Len(content) :
              \E k \in 1..Len(closed) : content[i] \in Range(closed[k].paras)
        /\ content # <<>> =>
              /\ chunks # <<>>
              /\ closed[Len(closed)].paras = current_chunk
              /\ current_chunk[Len(current_chunk)] = content[Len(content)]

\* C3 witness: the call returned at least two chunks, one of them starts
\* with carried-over paragraphs, and the final chunk is under the window.
C3_Witness ==
    /\ para_pc = "done"
    /\ Len(closed) >= 2
    /\ \E k \in 2..Len(closed) : closed[k].carried > 0
    /\ WordsOf(closed[Len(closed)].paras) < max_words_per_chunk

\* C4: the seed computed when a chunk is closed is the longest suffix of
\* whole paragraphs of the closed chunk with at most overlap_words words, it
\* is empty when the last closed paragraph alone exceeds overlap_words, and
\* the next buffer starts with it, in order.
C4_SeedIsLongestFittingSuffix ==
    \A k \in 1..Len(closed) :
        closed[k].trigger > 0 =>
            LET c == closed[k]
                n == Len(c.seed)
                next == IF k < Len(closed) THEN closed[k + 1].paras ELSE current_chunk
            IN  /\ IsSuffix(c.seed, c.paras)
                /\ WordsOf(c.seed) <= overlap_words
                /\ n < Len(c.paras) => WordsOf(SuffixOf(c.paras, n + 1)) > overlap_words
                /\ (c.paras # <<>> /\ Len(Split(c.paras[Len(c.paras)])) > overlap_words)
                      => c.seed = <<>>
                /\ Len(next) > n
                /\ SubSeq(next, 1, n) = c.seed
                /\ next[n + 1] = content[c.trigger]

\* C4 witness: a chunk of several paragraphs was closed and only a proper,
\* non-empty suffix of it was carried over.
C4_Witness ==
    \E k \in 1..Len(closed) :
        /\ closed[k].trigger > 0
        /\ closed[k].seed # <<>>
        /\ Len(closed[k].seed) < Len(closed[k].paras)

\* the last k words of a word list, none for k = 0
ClaimedLastWords(words, k) == SubSeq(words, Len(words) - k + 1, Len(words))

\* C5: the bridge between pages i and i+1 is the last
\* floor(overlap_percentage * len(words_i)) words of page i followed by the
\* first floor(overlap_percentage * len(words_{i+1})) words of page i+1, and
\* its page_number is "{i}-{i+1}".
C5_BridgeText ==
    pdf_pc = "called" =>
        \A i \in 1..(Len(pages) - 1) :
            LET w == Split(TextWithDescription(pages[i]))
                nw == Split(TextWithDescription(pages[i + 1]))
            IN  /\ Len(pdf_chunks) >= 2 * i
                /\ pdf_chunks[2 * i].text =
                       Join(<<" ">>,
                            ClaimedLastWords(w, OverlapSize(w, overlap_percentage))
                            \o SubSeq(nw, 1, OverlapSize(nw, overlap_percentage)))
                /\ pdf_chunks[2 * i].page_number
                       = IntToStr(i) \o <<"-">> \o IntToStr(i + 1)

\* C6: for m pages the result is page 1, bridge 1-2, page 2, ..., page m:
\* 2m - 1 chunks (none for m = 0), the chunk at position 2i - 1 is page i's
\* and the chunk at position 2i is the bridge from page i to page i + 1.
C6_PagesAndBridgesInterleaved ==
    pdf_pc = "called" =>
        LET m == Len(pages) IN
        /\ Len(pdf_chunks) = IF m = 0 THEN 0 ELSE 2 * m - 1
        /\ \A i \in 1..m :
              /\ pdf_chunks[2 * i - 1].page_number = pages[i].page_number
              /\ pdf_chunks[2 * i - 1].start_word = 0
              /\ pdf_chunks[2 * i - 1].end_word
                    = Len(Split(pdf_chunks[2 * i - 1].text))
        /\ \A i \in 1..(m - 1) :
              /\ pdf_chunks[2 * i].page_number
                    = IntToStr(pages[i].page_number) \o <<"-">>
                        \o IntToStr(pages[i + 1].page_number)
              /\ pdf_chunks[2 * i].image_path = None

\* C6 witness: a list of at least three pages was chunked.
C6_Witness ==
    /\ pdf_pc = "called"
    /\ Len(pages) >= 3
    /\ Len(pdf_chunks) = 2 * Len(pages) - 1

\* C7: when the extraction of a PDF failed, process_pdf returns the empty
\* list and no chunk file of that PDF is written.
C7_FailedExtractionYieldsNothing ==
    (pdf_pc = "returned" /\ pdf_path \in extract_errors) =>
        /\ pdf_result = <<>>
        /\ \A u \in DOMAIN out_files : out_files[u].source_pdf # pdf_path

\* C8: a page whose image description failed has its extracted text as the
\* page chunk's text, and the bridges next to it hold only words of that
\* text and of the neighbouring page.
C8_FailedDescriptionLeavesText ==
    pdf_pc = "returned" =>
        \A i \in 1..Len(pages) :
            <<pdf_path, i>> \in enrich_errors =>
                /\ Len(pdf_result) >= 2 * i - 1
                /\ pdf_result[2 * i - 1].text = pages[i].text
                /\ \A j \in {i - 1, i} \cap (1..(Len(pages) - 1)) :
                      Range(Split(pdf_result[2 * j].text)) \subseteq
                          Range(Split(pages[i].text))
                          \cup Range(Split(TextWithDescription(
                                   pages[IF j = i THEN i + 1 ELSE i - 1])))

\* the formats parse_document has a branch for
Supported(ft) == Lower(ft) \in {Docx, Txt, Pptx, Gdoc}

\* C9: parse_document never ends with an exception, and it returns the empty
\* list whenever the format is unsupported or the selected extractor failed:
\* the file unreadable, the Google Docs service missing, the conversion or
\* the removal of the converted PDF failed, or the extraction of the
\* converted PDF failed at its opening or at one of its pages.
C9_NoExceptionEscapes ==
    /\ doc_pc # "raised"
    /\ (doc_pc = "returned"
          /\ (~Supported(file_type) \/ doc_log # {} \/ extract_errors # {}))
          => doc_result = <<>>

\* C10: process_directory never ends with an exception, and when it returns
\* every PDF of the directory is in the result, a failed one with the empty
\* list.
C10_BatchContinues ==
    /\ dir_pc # "raised"
    /\ dir_pc = "returned" =>
          \A k \in 1..Len(pdf_files) :
              /\ pdf_files[k] \in DOMAIN results
              /\ pdf_files[k] \in extract_errors => results[pdf_files[k]] = <<>>

\* C11: when parse_document has returned for a .pptx file, the PDF written
\* by the conversion is no longer on disk and no COM/PowerPoint session is
\* left open, whichever way _convert_and_parse_pptx was left.
C11_TempPdfAndSessionReleased ==
    (doc_pc = "returned" /\ Lower(file_type) = Pptx) =>
        /\ \A p \in DOMAIN fs : fs[p] # "converted"
        /\ ~com_open

\* C12: when parse_document has returned, every file that was on disk
\* before the call is still there with the content it had, the PDF that
\* shares the presentation's stem included.
C12_OtherFilesUntouched ==
    doc_pc = "returned" =>
        \A p \in DOMAIN fs0 : p \in DOMAIN fs /\ fs[p] = fs0[p]

\* C13: a call whose overlap_words is at least max_words_per_chunk is
\* rejected: it never appends a chunk.
C13_BadConfigurationRejected ==
    overlap_words >= max_words_per_chunk => chunks = <<>>

\* C15: every object handed to the collection has word_count equal to the
\* number of whitespace-delimited tokens of its content, whatever the file
\* text and the metadata argument of upload_text_file were; so has every
\* object the Streamlit upload builds.
C15_WordCountMatchesContent ==
    /\ \A k \in 1..Len(collection) :
         collection[k].word_count = Len(Split(collection[k].content))
    /\ \A t \in UploadTexts :
         LET r == StreamlitRecord(t, UploadName, uuid_next, clock)
         IN  r.word_count = Len(Split(r.content))

\* the field set the output schema prescribes for every chunk record
SchemaFields ==
    {"content", "source_file", "page_number", "chunk_id", "word_count",
     "created_at"}

\* C14: every chunk record has exactly the fields of the output schema:
\* the chunks of _create_chunk_with_overlap, of create_overlapping_chunks
\* and process_pdf, what parse_document returns, and the objects
\* upload_text_file inserts.
C14_OneFieldSet ==
    /\ \A k \in 1..Len(chunks) : DOMAIN chunks[k] = SchemaFields
    /\ \A k \in 1..Len(pdf_chunks) : DOMAIN pdf_chunks[k] = SchemaFields
    /\ \A k \in 1..Len(pdf_result) : DOMAIN pdf_result[k] = SchemaFields
    /\ \A k \in 1..Len(doc_result) : DOMAIN doc_result[k] = SchemaFields
    /\ \A k \in 1..Len(collection) : DOMAIN collection[k] = SchemaFields

\* what the caller of parse_document gets: how the call ended and its value
Observed(ret) == <<ret.pc, ret.value>>

\* what the caller gets for a supported format whose file cannot be read
CorruptObservations ==
    {Observed(ParseOutcome(ft, FALSE)) :
        ft \in {t \in FileTypes : Lower(t) \in {Docx, Txt, Gdoc}}}

\* C19: what the caller of parse_document gets for an unsupported format
\* differs from what it gets for a supported format whose file is unreadable
\* or corrupt.
C19_UnsupportedToldApart ==
    (doc_pc = "returned" /\ ~Supported(file_type)) =>
        <<doc_pc, doc_result>> \notin CorruptObservations

\* the pair is a configured user with the password stored for it
ValidCredentials(username, password) ==
    /\ username \in DOMAIN USERS
    /\ Sha256(password) = USERS[username]

\* C20: after password_entered has run, password_correct is True exactly
\* when the entered username is a key of USERS and the digest of the entered
\* password is the one stored for it; then the password is gone from the
\* session state and the next check_password returns True, otherwise it
\* returns False.
C20_AuthenticatesConfiguredUsers ==
    entered # <<>> =>
        LET valid == ValidCredentials(entered[1].username, entered[1].password)
        IN  /\ session["password_correct"] = valid
            /\ entered[1].check = valid
            /\ valid => "password" \notin DOMAIN session

\* the list is three pages of 500 words without description, chunked with
\* an overlap of 0.2
ThreePagesOf500 ==
    /\ Len(pages) = 3
    /\ \A i \in 1..3 : /\ Len(Split(pages[i].text)) = 500
                       /\ ~Truthy(pages[i].image_description)
    /\ overlap_percentage = <<1, 5>>

\* the bridge of pages i and i+1 as the scenario states it: the last 100
\* words of the one, then the first 100 words of the other
BridgeOf100(i) ==
    SubSeq(Split(pages[i].text), 401, 500)
        \o SubSeq(Split(pages[i + 1].text), 1, 100)

\* C17: three pages of 500 words each, no image description, overlap 0.2:
\* 5 chunks, in the order page 1, bridge "1-2", page 2, bridge "2-3",
\* page 3; the page chunks hold the 500 words of their page, each bridge
\* 200 words: the last 100 of the earlier page, then the first 100 of the
\* later one.
C17_ThreePagesFiveChunks ==
    (pdf_pc = "called" /\ ThreePagesOf500) =>
        /\ Len(pdf_chunks) = 5
        /\ \A i \in 1..3 :
             /\ pdf_chunks[2 * i - 1].page_number = i
             /\ Split(pdf_chunks[2 * i - 1].text) = Split(pages[i].text)
             /\ Len(Split(pdf_chunks[2 * i - 1].text)) = 500
        /\ \A i \in 1..2 :
             /\ pdf_chunks[2 * i].page_number = RangeRef(i, i + 1)
             /\ Len(Split(pdf_chunks[2 * i].text)) = 200
             /\ Split(pdf_chunks[2 * i].text) = BridgeOf100(i)

\* the call on the three pages of 500 words has returned
C17_Witness ==
    /\ pdf_pc = "called"
    /\ ThreePagesOf500
    /\ Len(pdf_chunks) = 5

\* the words of the whole input, in order
AllWords == Concat([i \in 1..Len(content) |-> Split(content[i])])

\* the words of the k-th returned chunk
ChunkWords(k) == Split(chunks[k].content)

\* the word window the k-th chunk is to cover: it starts (k-1)*stride words
\* into the text and is window words long, clipped to the text
WindowOf(words, k, window, overlap) ==
    LET start == (k - 1) * (window - overlap)
        stop == IF start + window < Len(words) THEN start + window ELSE Len(words)
    IN  SubSeq(words, start + 1, stop)

\* C18: with a window of 1000 words and an overlap of 200, a text of 2400
\* words is returned as chunks of 1000, 1000 and 600 words; the k-th chunk
\* is the k-th word window of stride 800, and every two consecutive chunks
\* share exactly 200 words at their boundary.
C18_WordWindows ==
    (/\ para_pc = "done"
     /\ max_words_per_chunk = 1000
     /\ overlap_words = 200
     /\ Len(AllWords) = 2400) =>
        /\ [k \in 1..Len(chunks) |-> Len(ChunkWords(k))] = <<1000, 1000, 600>>
        /\ \A k \in 1..Len(chunks) :
             ChunkWords(k) = WindowOf(AllWords, k, max_words_per_chunk,
                                      overlap_words)
        /\ \A k \in 1..(Len(chunks) - 1) :
             LastWords(ChunkWords(k), overlap_words)
                 = FirstWords(ChunkWords(k + 1), overlap_words)

\* C21: at the start of every loop iteration the running word count is the
\* number of words of the paragraphs held in the buffer, also in the
\* iterations after a chunk was closed and the buffer re-seeded.
C21_CountMatchesBuffer ==
    (para_pc = "loop" /\ para_i <= Len(content)) =>
        current_word_count = WordsOf(current_chunk)

\* C22: once a configured username and its password have been entered and
\* the script has run on them, the session holds a chat history: it begins
\* with the one assistant greeting, and after it every question is one user
\* message followed by one assistant message, so the roles alternate and
\* the history ends with an assistant message.
C22_ChatHistoryWellFormed ==
    (entered # <<>>
       /\ ValidCredentials(entered[1].username, entered[1].password)) =>
        /\ "messages" \in DOMAIN session
        /\ LET history == session["messages"]
           IN  /\ Len(history) % 2 = 1
               /\ history[1] = [role |-> "assistant", content |-> Greeting]
               /\ \A k \in 1..Len(history) :
                     history[k].role = IF k % 2 = 1 THEN "assistant"
                                       ELSE "user"

====
